---- MODULE Spec2Model ----
(***************************************************************************)
(* DrumKitz: the peak/segment detector of src/utils/audioProcessing.ts     *)
(* (detectPeaks, calculateRMS, sliceAudio) and the components that call it *)
(* (AudioPreview, ProcessingOptions, App).                                 *)
(*                                                                         *)
(* Sample positions are sample indices; a time in seconds is the exact     *)
(* rational index / sampleRate, kept as the record [num, den].  A sample   *)
(* value and a threshold are integers in one common amplitude unit; an RMS *)
(* value sqrt(sum / n) is kept as the record [sum, n] and compared by      *)
(* cross-multiplication (n = 0 is the NaN that 0 / 0 produces).            *)
(***************************************************************************)
EXTENDS Integers, Sequences, FiniteSets, TLC

\* ------------------------------------------------------------------ bounds
MaxLen == 28          \* a buffer of up to MaxLen samples holds any signal
MaxLongLen == 60      \* one longer buffer holds the signals that change value
MaxLongChanges == 2   \* at most MaxLongChanges times
MaxTotalLen == 24     \* the buffers of the calls followed to their return
MaxEdgeLen == 24      \* the buffers analysed at further sample rates
MaxAmplitudeLen == 22 \* the buffers whose peaks' highest windows are recorded
MaxAmplitudeLong == 48  \* and one longer buffer, whose signal changes value
MaxAmplitudeChanges == 1 \* at most MaxAmplitudeChanges times
MaxSilenceLen == 30   \* the buffers of zeros
MaxRunLen == 90       \* the buffers that are loud from end to end
MaxPairLen == 26      \* the buffers of the two-threshold comparison, and
MaxPairChanges == 3   \* the changes of value of their signals
MaxSliceLen == 5      \* the buffers sliceAudio cuts
MaxChannels == 2      \* and their channels
MaxCalls == 2         \* the calls of playPeak and restart while a file is loaded
MaxInflight == 3      \* the calls of detectAndUpdatePeaks that await at a time
MaxRuns == 2          \* the calls of processAudio

\* sample rates of the analysed buffers: 100 Hz gives an empty RMS window,
\* 200 Hz a window of one sample, 400 Hz a window of two
SampleRates == {100, 200, 400}

\* a signal takes two sample values: silence or a low level, and a high level;
\* the thresholds lie below silence, at silence and at the low level (all in
\* one amplitude unit)
Alphabets == {{0, 2}, {1, 2}}
Thresholds == {-1, 0, 1}

\* --------------------------------------------------------------- constants
\* the time constants of the detector, in thousandths of a second
MIN_PEAK_DISTANCE == 50
PRE_PEAK_BUFFER == 25
POST_PEAK_BUFFER == 50
MIN_SEGMENT_DURATION == 50
MAX_SEGMENT_DURATION == 200
RMS_WINDOW == 5

Min(a, b) == IF a <= b THEN a ELSE b
Max(a, b) == IF a >= b THEN a ELSE b

\* Math.floor(<seconds constant> * sampleRate)
ToSamples(ms, rate) == (ms * rate) \div 1000

minPeakDistanceSamples(rate) == ToSamples(MIN_PEAK_DISTANCE, rate)
prePeakBufferSamples(rate) == ToSamples(PRE_PEAK_BUFFER, rate)
postPeakBufferSamples(rate) == ToSamples(POST_PEAK_BUFFER, rate)
minSegmentSamples(rate) == ToSamples(MIN_SEGMENT_DURATION, rate)
maxSegmentSamples(rate) == ToSamples(MAX_SEGMENT_DURATION, rate)
rmsWindowSize(rate) == ToSamples(RMS_WINDOW, rate)

\* index / sampleRate, the time in seconds of a sample index
ToSeconds(index, rate) == [num |-> index, den |-> rate]

VARIABLES
  \* one call of detectPeaks
  sampleRate,     \* audioBuffer.sampleRate
  dataLength,     \* data.length
  threshold,      \* the threshold argument
  levels,         \* the sample values the signal takes
  budget,         \* how many more times the signal may change value (-1: any number)
  script,         \* the scenario that fixes the samples, or "none"
  ahead,          \* the samples data[i .. min(i + rmsWindowSize, data.length) - 1]
  windowRms,      \* calculateRMS(data, i, rmsWindowSize)
  det,            \* the locals: i, isInPeak, peakStartIndex, lastPeakIndex,
                  \* maxAmplitude, peaks
  pc,             \* "loop" (in or before the for loop), "done" (returned)
  obs,            \* what the run has done so far (history, read by the properties)
  \* a second call on the same samples, with a higher threshold
  threshold2,
  det2,
  \* one call of sliceAudio
  sliceArgs,      \* [length, sampleRate, start, end], or NoCall
  sliced,         \* what the call returned or threw, or NoCall
  \* the components
  audioFile,      \* App: the file loaded, or NoFile
  appThreshold,   \* App: threshold, the prop of AudioPreview
  previewPeaks,   \* AudioPreview: peaks
  inflight,       \* AudioPreview: the calls of detectAndUpdatePeaks that await
  readyPending,   \* AudioPreview: the waveform loads, 'ready' is to come
  readyThreshold, \* AudioPreview: the threshold the 'ready' handler closed over
  optionsThreshold, \* ProcessingOptions: threshold
  \* AudioPreview: the playback
  isPlaying,      \* isPlaying
  selectedPeak,   \* selectedPeak: an index from 0, or NoSelection
  playbackTimeoutRef, \* playbackTimeoutRef.current: a timer, or NoTimer
  delayTimers,    \* the 50 ms timers of playPeak and restart, in the order set
  clearTimers,    \* the timers armed to clear the selection
  calls,          \* how many times playPeak and restart were called
  lastPlayPeak,   \* which of these calls was the last playPeak (0: none)
  playing,        \* what the waveform plays: nothing, the file, or a segment
  staleFired,     \* a timer of an earlier call has fired and acted (history)
  \* ProcessingOptions: the export
  isProcessing,   \* isProcessing of the ProcessingOptions that is mounted
  runs,           \* the calls of processAudio, in the order of the clicks
  downloads       \* the archives handed to the browser for download (history)

detVars == <<sampleRate, dataLength, threshold, levels, budget, script, ahead,
             windowRms, det, pc, obs>>
pairVars == <<threshold2, det2>>
sliceVars == <<sliceArgs, sliced>>
playVars == <<isPlaying, selectedPeak, playbackTimeoutRef, delayTimers, clearTimers,
             calls, lastPlayPeak, playing, staleFired>>
uiVars == <<audioFile, appThreshold, previewPeaks, inflight, readyPending, readyThreshold,
           optionsThreshold, playVars>>
exportVars == <<isProcessing, runs, downloads>>
vars == <<detVars, pairVars, sliceVars, uiVars, exportVars>>

\* ------------------------------------------------------------ calculateRMS
\* data[j] for an index j of the current window
Data(buf, first, j) == buf[j - first + 1]

\* the sum of the samples, not of their squares
RECURSIVE SumSquares_Plain(_, _, _, _)
SumSquares_Plain(buf, first, j, end) ==
  IF j >= end THEN 0
  ELSE IF end - j = 1 THEN Data(buf, first, j)
  ELSE SumSquares_Plain(buf, first, j, (j + end) \div 2)
         + SumSquares_Plain(buf, first, (j + end) \div 2, end)

\* the sum of data[i] * data[i] for i in j .. end - 1 (an exact sum of integers,
\* taken by halves to keep the recursion shallow)
RECURSIVE SumSquares(_, _, _, _)
SumSquares(buf, first, j, end) ==
  IF j >= end THEN 0
  ELSE IF end - j = 1 THEN Data(buf, first, j) * Data(buf, first, j)
  ELSE SumSquares(buf, first, j, (j + end) \div 2)
         + SumSquares(buf, first, (j + end) \div 2, end)

\* the root of the sum, not of the mean
calculateRMS_NoMean(buf, len, start, length) ==
  LET end == Min(start + length, len)
  IN [sum |-> SumSquares(buf, start, start, end), n |-> IF end > start THEN 1 ELSE 0]

\* calculateRMS(data, start, length), with data[start ..] held in buf
calculateRMS(buf, len, start, length) ==
  LET end == Min(start + length, len)
  IN [sum |-> SumSquares(buf, start, start, end), n |-> end - start]

IsNaN(r) == r.n = 0

\* rms < threshold: the comparison the wrong way round
Exceeds_Below(r, thr) == ~IsNaN(r) /\ thr >= 0 /\ r.sum < thr * thr * r.n

\* rms >= threshold: a window at the threshold counted as exceeding it
Exceeds_OrEqual(r, thr) == ~IsNaN(r) /\ (thr < 0 \/ r.sum >= thr * thr * r.n)

\* !(rms <= threshold): a window with no RMS counted as exceeding
Exceeds_OrNaN(r, thr) == IsNaN(r) \/ thr < 0 \/ r.sum > thr * thr * r.n

\* rms > threshold
Exceeds(r, thr) == ~IsNaN(r) /\ (thr < 0 \/ r.sum > thr * thr * r.n)

\* rms = threshold
RmsEquals(r, thr) == ~IsNaN(r) /\ thr >= 0 /\ r.sum = thr * thr * r.n

\* rms <= threshold
NotExceeds(r, thr) == ~IsNaN(r) /\ thr >= 0 /\ r.sum <= thr * thr * r.n

\* Math.max(a, b) of two RMS values
MaxRms(a, b) ==
  IF IsNaN(a) THEN a
  ELSE IF IsNaN(b) THEN b
  ELSE IF b.sum * a.n > a.sum * b.n THEN b ELSE a

ZeroAmplitude == [sum |-> 0, n |-> 1]

\* ------------------------------------------------------------- detectPeaks
InitDet(rate) ==
  [i |-> 0,
   isInPeak |-> FALSE,
   peakStartIndex |-> 0,
   lastPeakIndex |-> -minPeakDistanceSamples(rate),
   maxAmplitude |-> ZeroAmplitude,
   peaks |-> <<>>]

\* a peak entered without the distance test
StartCond_NoDistance(d, rms, thr, rate) ==
  /\ Exceeds(rms, thr)
  /\ ~d.isInPeak

\* the three conditions of the if / else if chain of the loop body
StartCond(d, rms, thr, rate) ==
  /\ Exceeds(rms, thr)
  /\ ~d.isInPeak
  /\ d.i - d.lastPeakIndex >= minPeakDistanceSamples(rate)

ContinueCond(d, rms, thr, rate) ==
  /\ ~StartCond(d, rms, thr, rate)
  /\ Exceeds(rms, thr)
  /\ d.isInPeak

EndCond(d, rms, thr, rate) ==
  /\ ~StartCond(d, rms, thr, rate)
  /\ ~ContinueCond(d, rms, thr, rate)
  /\ NotExceeds(rms, thr)
  /\ d.isInPeak

\* a peak that starts at the index that detected it, with no pre-peak buffer
NewPeakStart_NoBuffer(d, rate) ==
  Max(d.i, d.lastPeakIndex + minPeakDistanceSamples(rate))

\* peakStartIndex on entering a peak
NewPeakStart(d, rate) ==
  Max(d.i - prePeakBufferSamples(rate), d.lastPeakIndex + minPeakDistanceSamples(rate))

OnStart(d, rms, rate) ==
  [d EXCEPT !.isInPeak = TRUE,
            !.peakStartIndex = NewPeakStart(d, rate),
            !.maxAmplitude = rms]

\* the amplitude of the last window, not of the highest
OnContinue_Last(d, rms) ==
  [d EXCEPT !.maxAmplitude = rms]

OnContinue(d, rms) ==
  [d EXCEPT !.maxAmplitude = MaxRms(d.maxAmplitude, rms)]

\* the end index with the post-peak buffer, before the duration clamps
BufferedEnd(d, len, rate) == Min(d.i + postPeakBufferSamples(rate), len)

\* no minimum ensured
MinClamp_None(d, end, rate) == end

\* "Ensure minimum segment duration"
MinClamp(d, end, rate) ==
  IF end - d.peakStartIndex < minSegmentSamples(rate)
  THEN d.peakStartIndex + minSegmentSamples(rate)
  ELSE end

\* no maximum enforced
MaxClamp_None(d, end, rate) == end

\* "Enforce maximum segment duration"
MaxClamp(d, end, rate) ==
  IF end - d.peakStartIndex > maxSegmentSamples(rate)
  THEN d.peakStartIndex + maxSegmentSamples(rate)
  ELSE end

\* peakEndIndex of the segment closed on a falling edge
PeakEnd(d, len, rate) == MaxClamp(d, MinClamp(d, BufferedEnd(d, len, rate), rate), rate)

\* "Add peak if it meets duration requirements"
MeetsMinimum(d, end, rate) == end - d.peakStartIndex >= minSegmentSamples(rate)

Peak(d, end, rate) ==
  [start |-> ToSeconds(d.peakStartIndex, rate),
   end |-> ToSeconds(end, rate),
   amplitude |-> d.maxAmplitude]

\* a segment closed without lastPeakIndex moving to its end
OnEnd_KeepsLastPeak(d, len, rate) ==
  LET peakEndIndex == PeakEnd(d, len, rate)
  IN IF MeetsMinimum(d, peakEndIndex, rate)
     THEN [d EXCEPT !.isInPeak = FALSE,
                    !.peaks = Append(d.peaks, Peak(d, peakEndIndex, rate))]
     ELSE [d EXCEPT !.isInPeak = FALSE]

OnEnd(d, len, rate) ==
  LET peakEndIndex == PeakEnd(d, len, rate)
  IN IF MeetsMinimum(d, peakEndIndex, rate)
     THEN [d EXCEPT !.isInPeak = FALSE,
                    !.peaks = Append(d.peaks, Peak(d, peakEndIndex, rate)),
                    !.lastPeakIndex = peakEndIndex]
     ELSE [d EXCEPT !.isInPeak = FALSE]

\* one iteration of the for loop, i++ included
LoopBody(d, rms, thr, len, rate) ==
  LET next == IF StartCond(d, rms, thr, rate) THEN OnStart(d, rms, rate)
              ELSE IF ContinueCond(d, rms, thr, rate) THEN OnContinue(d, rms)
              ELSE IF EndCond(d, rms, thr, rate) THEN OnEnd(d, len, rate)
              ELSE d
  IN [next EXCEPT !.i = d.i + 1]

\* the flush without the maximum duration
FlushEnd_NoMax(d, len, rate) == len

\* peakEndIndex of the segment closed after the loop
FlushEnd(d, len, rate) == Min(len, d.peakStartIndex + maxSegmentSamples(rate))

\* a flush that raises the end to the minimum duration, as a falling edge does
AfterLoop_MinClamped(d, len, rate) ==
  IF d.isInPeak
  THEN [d EXCEPT !.peaks = Append(d.peaks,
                                  Peak(d, MinClamp(d, FlushEnd(d, len, rate), rate), rate))]
  ELSE d

\* a flush that does not ask whether a peak is open, nor how long it is
AfterLoop_Unguarded(d, len, rate) ==
  [d EXCEPT !.peaks = Append(d.peaks, Peak(d, FlushEnd(d, len, rate), rate))]

\* "Handle case where we're still in a peak at the end of the file"
AfterLoop(d, len, rate) ==
  IF d.isInPeak /\ MeetsMinimum(d, FlushEnd(d, len, rate), rate)
  THEN [d EXCEPT !.peaks = Append(d.peaks, Peak(d, FlushEnd(d, len, rate), rate))]
  ELSE d

\* ---------------------------------------------------- the run of detectPeaks
\* the scenarios of the specification: a buffer of zeros but for some spans,
\* in amplitude units of 0.1
Scenario(name) ==
  CASE name = "A" -> [length |-> 48000, rate |-> 48000, threshold |-> 1,
                      spans |-> {[from |-> 4800, to |-> 4900, value |-> 5]}]
    [] name = "B" -> [length |-> 48000, rate |-> 48000, threshold |-> 1,
                      spans |-> {[from |-> 4800, to |-> 5040, value |-> 5]}]
    \* two impulses of full scale, 1.0
    [] name = "C" -> [length |-> 48000, rate |-> 48000, threshold |-> 1,
                      spans |-> {[from |-> 4800, to |-> 4801, value |-> 10],
                                 [from |-> 5000, to |-> 5001, value |-> 10]}]
    \* two impulses beyond full scale, 1.1
    [] name = "C11" -> [length |-> 48000, rate |-> 48000, threshold |-> 1,
                        spans |-> {[from |-> 4800, to |-> 4801, value |-> 11],
                                   [from |-> 5000, to |-> 5001, value |-> 11]}]

\* data[j] in a scenario
ScenarioSample(sc, j) ==
  IF \E sp \in sc.spans : sp.from <= j /\ j < sp.to
  THEN (CHOOSE sp \in sc.spans : sp.from <= j /\ j < sp.to).value
  ELSE 0

\* the windows index 0 can have: the first min(rmsWindowSize, data.length) samples
FirstWindows(len, rate, values) == [1..Min(rmsWindowSize(rate), len) -> values]

\* whether a sample enters the window when the loop moves on from index i
Enters(i) == i + rmsWindowSize(sampleRate) < dataLength /\ rmsWindowSize(sampleRate) > 0

\* the window of index i + 1, given the sample x that enters it (if one does)
Shift(buf, i, x) ==
  IF rmsWindowSize(sampleRate) = 0 THEN <<>>
  ELSE IF Enters(i) THEN Append(Tail(buf), x)
  ELSE Tail(buf)

\* the values data[i + rmsWindowSize] can take
Entering(i) ==
  IF ~Enters(i) THEN {0}
  ELSE IF script # "none"
    THEN {ScenarioSample(Scenario(script), i + rmsWindowSize(sampleRate))}
  ELSE IF budget = 0 THEN {ahead[Len(ahead)]}
  ELSE levels

\* the changes of value left once x entered the window
NextBudget(i, x) ==
  IF budget > 0 /\ Enters(i) /\ x # ahead[Len(ahead)] THEN budget - 1 ELSE budget

\* the lowest sample rate that has an RMS window
LowRate == CHOOSE r \in SampleRates :
  /\ rmsWindowSize(r) > 0
  /\ \A q \in SampleRates : rmsWindowSize(q) > 0 => r <= q

InitObs ==
  [allAbove |-> TRUE,      \* every window so far exceeded the threshold
   noneAbove |-> TRUE,     \* no window so far exceeded the threshold
   minClamped |-> FALSE,   \* the last segment closed had its end raised to the minimum
   exitIndex |-> -1,       \* the index whose window closed the last segment
   exitTie |-> FALSE,      \* that window's RMS was equal to the threshold
   flushed |-> FALSE,      \* the last segment was closed after the loop
   tracked |-> FALSE,      \* whether the run records the two fields below
   runMax |-> ZeroAmplitude, \* the highest RMS of the windows of the last peak
   runMaxIndex |-> -1]     \* and the first index whose window had it

\* the first window of a peak
First(d, rms) == obs.tracked /\ StartCond(d, rms, threshold, sampleRate)

\* inside a peak, a window with a higher RMS than every window before it
Higher(d, rms) ==
  /\ obs.tracked
  /\ ContinueCond(d, rms, threshold, sampleRate)
  /\ rms.sum * obs.runMax.n > obs.runMax.sum * rms.n

Observe(d, rms) ==
  [obs EXCEPT !.allAbove = obs.allAbove /\ Exceeds(rms, threshold),
              !.noneAbove = obs.noneAbove /\ ~Exceeds(rms, threshold),
              !.minClamped = IF EndCond(d, rms, threshold, sampleRate)
                             THEN MinClamp(d, BufferedEnd(d, dataLength, sampleRate), sampleRate)
                                    # BufferedEnd(d, dataLength, sampleRate)
                             ELSE obs.minClamped,
              !.exitIndex = IF EndCond(d, rms, threshold, sampleRate) THEN d.i ELSE obs.exitIndex,
              !.exitTie = IF EndCond(d, rms, threshold, sampleRate)
                          THEN RmsEquals(rms, threshold)
                          ELSE obs.exitTie,
              !.runMax = IF First(d, rms) \/ Higher(d, rms) THEN rms ELSE obs.runMax,
              !.runMaxIndex = IF First(d, rms) \/ Higher(d, rms)
                              THEN d.i ELSE obs.runMaxIndex]

\* the state of detectPeaks before the loop, for a signal of the given kind
Start(rates, lengths, thresholds, alphabets, budgets) ==
  /\ sampleRate \in rates
  /\ dataLength \in lengths
  /\ threshold \in thresholds
  /\ levels \in alphabets
  /\ budget \in budgets
  /\ script = "none"
  /\ ahead \in FirstWindows(dataLength, sampleRate, levels)
  /\ windowRms = calculateRMS(ahead, dataLength, 0, rmsWindowSize(sampleRate))
  /\ det = InitDet(sampleRate)
  /\ pc = "loop"
  /\ obs = InitObs

\* the same, with the record of each peak's highest window
StartTracked(rates, lengths, thresholds, alphabets, budgets) ==
  /\ sampleRate \in rates
  /\ dataLength \in lengths
  /\ threshold \in thresholds
  /\ levels \in alphabets
  /\ budget \in budgets
  /\ script = "none"
  /\ ahead \in FirstWindows(dataLength, sampleRate, levels)
  /\ windowRms = calculateRMS(ahead, dataLength, 0, rmsWindowSize(sampleRate))
  /\ det = InitDet(sampleRate)
  /\ pc = "loop"
  /\ obs = [InitObs EXCEPT !.tracked = TRUE]

NoCall == [called |-> FALSE]
NoFile == "none"

\* the first value of threshold in App and in ProcessingOptions, 0.1, in
\* amplitude units of 0.1
DEFAULT_THRESHOLD == 1
OPTIONS_THRESHOLD == 1

\* no second call of detectPeaks
NoPair ==
  /\ threshold2 = threshold
  /\ det2 = InitDet(sampleRate)

\* no call of sliceAudio
NoSlice ==
  /\ sliceArgs = NoCall
  /\ sliced = NoCall

\* selectedPeak is null, playbackTimeoutRef.current is null
NoSelection == -1
NoTimer == 0

\* what the waveform plays
Stopped == [kind |-> "none"]
WholeFile == [kind |-> "file"]
Segment(peak) == [kind |-> "segment", peak |-> peak]

\* AudioPreview as mounted: nothing plays, no timer is set
NoPlayback ==
  /\ isPlaying = FALSE
  /\ selectedPeak = NoSelection
  /\ playbackTimeoutRef = NoTimer
  /\ delayTimers = << >>
  /\ clearTimers = {}
  /\ calls = 0
  /\ lastPlayPeak = 0
  /\ playing = Stopped
  /\ staleFired = FALSE

\* AudioPreview unmounts: the timers it leaves can change nothing any more
ResetPlayback ==
  /\ isPlaying' = FALSE
  /\ selectedPeak' = NoSelection
  /\ playbackTimeoutRef' = NoTimer
  /\ delayTimers' = << >>
  /\ clearTimers' = {}
  /\ calls' = 0
  /\ lastPlayPeak' = 0
  /\ playing' = Stopped
  /\ staleFired' = FALSE

\* ProcessingOptions as mounted for the first time: no export was asked for
NoExport ==
  /\ isProcessing = FALSE
  /\ runs = << >>
  /\ downloads = << >>

\* no file loaded: App shows AudioUpload
NoComponents ==
  /\ audioFile = NoFile
  /\ appThreshold = DEFAULT_THRESHOLD
  /\ previewPeaks = << >>
  /\ inflight = << >>
  /\ readyPending = FALSE
  /\ readyThreshold = DEFAULT_THRESHOLD
  /\ optionsThreshold = OPTIONS_THRESHOLD
  /\ NoPlayback
  /\ NoExport

\* no call of detectPeaks under way
NoDetect == Start({LowRate}, {0}, {0}, {{0}}, {-1})

\* any signal in a buffer of up to MaxLen samples, or a signal of few changes
\* in the long buffer at the lowest rate
Init ==
  /\ \/ Start(SampleRates, 0..MaxLen, Thresholds, Alphabets, {-1})
     \/ Start({LowRate}, {MaxLongLen}, Thresholds, Alphabets, {MaxLongChanges})
  /\ NoPair
  /\ NoSlice
  /\ NoComponents

\* the loop condition holds
InLoop == pc = "loop" /\ det.i < dataLength

\* the loop body at index det.i, then i++ and the window of the next index
Iterate ==
  /\ det' = LoopBody(det, windowRms, threshold, dataLength, sampleRate)
  /\ obs' = Observe(det, windowRms)
  /\ \E x \in Entering(det.i) :
       /\ ahead' = Shift(ahead, det.i, x)
       /\ budget' = NextBudget(det.i, x)
  /\ windowRms' = calculateRMS(ahead', dataLength, det.i + 1, rmsWindowSize(sampleRate))
  /\ UNCHANGED <<sampleRate, dataLength, threshold, levels, script, pc>>
  /\ UNCHANGED <<pairVars, sliceVars, exportVars, uiVars>>

\* "Start of a new peak"
StartPeak ==
  /\ InLoop
  /\ StartCond(det, windowRms, threshold, sampleRate)
  /\ Iterate

\* "Update maximum amplitude if we're in a peak"
ContinuePeak ==
  /\ InLoop
  /\ ContinueCond(det, windowRms, threshold, sampleRate)
  /\ Iterate

\* "End of peak detected"
EndPeak ==
  /\ InLoop
  /\ EndCond(det, windowRms, threshold, sampleRate)
  /\ Iterate

\* none of the three conditions holds: the body does nothing
SkipIndex ==
  /\ InLoop
  /\ ~StartCond(det, windowRms, threshold, sampleRate)
  /\ ~ContinueCond(det, windowRms, threshold, sampleRate)
  /\ ~EndCond(det, windowRms, threshold, sampleRate)
  /\ Iterate

\* the loop is over while a peak is open: close it and return
FlushPeak ==
  /\ pc = "loop"
  /\ det.i >= dataLength
  /\ det.isInPeak
  /\ det' = AfterLoop(det, dataLength, sampleRate)
  /\ obs' = [obs EXCEPT !.flushed = Len(det'.peaks) > Len(det.peaks)]
  /\ pc' = "done"
  /\ UNCHANGED <<sampleRate, dataLength, threshold, levels, budget, script, ahead, windowRms>>
  /\ UNCHANGED <<pairVars, sliceVars, exportVars, uiVars>>

\* the loop is over with no peak open: return
ReturnPeaks ==
  /\ pc = "loop"
  /\ det.i >= dataLength
  /\ ~det.isInPeak
  /\ det' = AfterLoop(det, dataLength, sampleRate)
  /\ pc' = "done"
  /\ UNCHANGED <<sampleRate, dataLength, threshold, levels, budget, script, ahead, windowRms, obs>>
  /\ UNCHANGED <<pairVars, sliceVars, exportVars, uiVars>>

Next == StartPeak \/ ContinuePeak \/ EndPeak \/ SkipIndex \/ FlushPeak \/ ReturnPeaks

Spec == Init /\ [][Next]_vars

\* the call runs to completion: nothing suspends the loop or the return
InitTotal ==
  /\ Start(SampleRates, 0..MaxTotalLen, Thresholds, Alphabets, {-1})
  /\ NoPair
  /\ NoSlice
  /\ NoComponents

FairSpec == InitTotal /\ [][Next]_vars /\ WF_vars(Next)

\* --------------------------------------------------- further sample rates
\* rates at which the constants are no whole numbers of samples: at 250 Hz
\* the minimum is floor(12.5), at 330 Hz floor(16.5)
EdgeRates == {200, 250, 330, 400}

InitEdges ==
  /\ Start(EdgeRates, 0..MaxEdgeLen, Thresholds, Alphabets, {-1})
  /\ NoPair
  /\ NoSlice
  /\ NoComponents

NextEdges == StartPeak \/ ContinuePeak \/ EndPeak \/ SkipIndex \/ FlushPeak \/ ReturnPeaks

SpecEdges == InitEdges /\ [][NextEdges]_vars

\* ------------------------------------------- the highest window of a peak
InitAmplitude ==
  /\ \/ StartTracked(SampleRates, 0..MaxAmplitudeLen, Thresholds, Alphabets, {-1})
     \/ StartTracked({LowRate}, {MaxAmplitudeLong}, Thresholds, Alphabets,
                     {MaxAmplitudeChanges})
  /\ NoPair
  /\ NoSlice
  /\ NoComponents

NextAmplitude ==
  StartPeak \/ ContinuePeak \/ EndPeak \/ SkipIndex \/ FlushPeak \/ ReturnPeaks

SpecAmplitude == InitAmplitude /\ [][NextAmplitude]_vars

\* ------------------------------------------------------- a buffer of zeros
SilenceThresholds == {t \in Thresholds \cup {2} : t > 0}

InitSilence ==
  /\ Start(SampleRates, 0..MaxSilenceLen, SilenceThresholds, {{0}}, {-1})
  /\ NoPair
  /\ NoSlice
  /\ NoComponents

NextSilence == SkipIndex \/ ReturnPeaks

SpecSilence == InitSilence /\ [][NextSilence]_vars

\* ---------------------------------------------- a buffer loud from end to end
\* no sample is silent and the threshold is at most silence: every window
\* exceeds the threshold (where there is a window)
InitRun ==
  /\ Start(SampleRates, 0..MaxRunLen, {t \in Thresholds : t <= 0}, {{1, 2}}, {-1})
  /\ NoPair
  /\ NoSlice
  /\ NoComponents

NextRun == StartPeak \/ ContinuePeak \/ SkipIndex \/ FlushPeak \/ ReturnPeaks

SpecRun == InitRun /\ [][NextRun]_vars

\* ------------------------------------------- two thresholds, the same signal
\* the sample values and the thresholds of the comparison
PairLevels == {1, 2, 3}
PairThresholds == {0, 1, 2}

InitPair ==
  /\ Start({LowRate}, 0..MaxPairLen, PairThresholds, {PairLevels}, {MaxPairChanges})
  /\ threshold2 \in PairThresholds
  /\ threshold < threshold2
  /\ det2 = InitDet(sampleRate)
  /\ NoSlice
  /\ NoComponents

\* both calls run the loop body at the same index, on the same window
PairIterate ==
  /\ InLoop
  /\ det' = LoopBody(det, windowRms, threshold, dataLength, sampleRate)
  /\ det2' = LoopBody(det2, windowRms, threshold2, dataLength, sampleRate)
  /\ obs' = Observe(det, windowRms)
  /\ \E x \in Entering(det.i) :
       /\ ahead' = Shift(ahead, det.i, x)
       /\ budget' = NextBudget(det.i, x)
  /\ windowRms' = calculateRMS(ahead', dataLength, det.i + 1, rmsWindowSize(sampleRate))
  /\ UNCHANGED <<sampleRate, dataLength, threshold, levels, script, pc, threshold2>>
  /\ UNCHANGED <<sliceVars, exportVars, uiVars>>

\* both calls leave the loop and return
PairReturn ==
  /\ pc = "loop"
  /\ det.i >= dataLength
  /\ det' = AfterLoop(det, dataLength, sampleRate)
  /\ det2' = AfterLoop(det2, dataLength, sampleRate)
  /\ pc' = "done"
  /\ UNCHANGED <<sampleRate, dataLength, threshold, levels, budget, script, ahead,
                 windowRms, obs, threshold2>>
  /\ UNCHANGED <<sliceVars, exportVars, uiVars>>

NextPair == PairIterate \/ PairReturn

SpecPair == InitPair /\ [][NextPair]_vars

\* ---------------------------------------------------------------- sliceAudio
\* Math.floor(seconds * sampleRate) for seconds = index / sampleRate: the
\* division and the product round, so the floor is index or index - 1
FloorSamples(index) == {index} \cup (IF index > 0 THEN {index - 1} ELSE {})

\* channelData[j] of a channel: the sample, or nothing past the end of the
\* typed array (undefined, stored as NaN)
ChannelSample(channel, length, j) ==
  IF j < length THEN <<channel, j>> ELSE << >>

\* AudioContext.createBuffer refuses a buffer of no frames
createBuffer(sampleDuration) ==
  IF sampleDuration <= 0 THEN "NotSupportedError" ELSE "none"

\* the buffer sliceAudio returns for the floors it computed, or the error thrown
sliceAudio(args, sampleStart, sampleDuration) ==
  IF createBuffer(sampleDuration) # "none"
  THEN [called |-> TRUE, error |-> createBuffer(sampleDuration), channels |-> << >>]
  ELSE [called |-> TRUE, error |-> "none",
        channels |-> [channel \in 1..args.numberOfChannels |->
                        [k \in 1..sampleDuration |->
                           ChannelSample(channel, args.length, sampleStart + k - 1)]]]

\* a buffer and a range in seconds, given as the sample indices start and end
\* are multiples of
InitSlice ==
  /\ NoDetect
  /\ NoPair
  /\ NoComponents
  /\ \E len \in 1..MaxSliceLen, rate \in SampleRates, nc \in 1..MaxChannels,
        s \in 0..(MaxSliceLen + 2), e \in 0..(MaxSliceLen + 2) :
       /\ s <= e
       /\ sliceArgs = [called |-> TRUE, length |-> len, sampleRate |-> rate,
                       numberOfChannels |-> nc, start |-> s, end |-> e]
  /\ sliced = NoCall

SliceAudio ==
  /\ sliceArgs # NoCall
  /\ sliced = NoCall
  /\ \E sampleStart \in FloorSamples(sliceArgs.start),
        sampleDuration \in FloorSamples(sliceArgs.end - sliceArgs.start) :
       sliced' = sliceAudio(sliceArgs, sampleStart, sampleDuration)
  /\ UNCHANGED <<detVars, pairVars, uiVars, exportVars, sliceArgs>>

NextSlice == SliceAudio

SpecSlice == InitSlice /\ [][NextSlice]_vars

\* ------------------------------------------------------------ the components
\* detectPeaks(audioBuffer, threshold) as a function of the whole buffer
RECURSIVE RunLoop(_, _, _, _)
RunLoop(d, data, rate, thr) ==
  IF d.i >= Len(data)
  THEN AfterLoop(d, Len(data), rate).peaks
  ELSE RunLoop(LoopBody(d,
                        calculateRMS(SubSeq(data, d.i + 1, Len(data)), Len(data),
                                     d.i, rmsWindowSize(rate)),
                        thr, Len(data), rate),
               data, rate, thr)

detectPeaks(audioBuffer, thr) ==
  RunLoop(InitDet(audioBuffer.sampleRate), audioBuffer.data, audioBuffer.sampleRate, thr)

\* the files the user picks, and what createAudioBuffer decodes them to: a loud
\* hit and a quiet one, or the quiet one first
Files == {"loudQuiet", "quietLoud"}
FileLength == 36
HitAt(j, from) == j > from /\ j <= from + 2

createAudioBuffer(file) ==
  [sampleRate |-> 200,
   data |-> [j \in 1..FileLength |->
               IF HitAt(j, 0) THEN (IF file = "loudQuiet" THEN 3 ELSE 2)
               ELSE IF HitAt(j, 22) THEN (IF file = "loudQuiet" THEN 2 ELSE 3)
               ELSE 0]]

\* the values the threshold slider is moved to, in amplitude units of 0.1
SliderValues == {1, 2, 3}

\* detectPeaks(await createAudioBuffer(file), threshold), for every file and
\* every threshold a render can have
DetectedPeaks ==
  [file \in Files |->
     [thr \in SliderValues \cup {DEFAULT_THRESHOLD} |->
        detectPeaks(createAudioBuffer(file), thr)]]

\* detectAndUpdatePeaks() of a render: the call awaits the decoding, with the
\* threshold of the render it closed over
Detection(thr) == [threshold |-> thr]

RemoveAt(seq, k) == SubSeq(seq, 1, k - 1) \o SubSeq(seq, k + 1, Len(seq))

InitPreview ==
  /\ NoDetect
  /\ NoPair
  /\ NoSlice
  /\ NoComponents

\* AudioUpload hands a file to App: AudioPreview and ProcessingOptions mount,
\* the waveform starts to load, the threshold effect runs
SelectFile ==
  /\ audioFile = NoFile
  /\ \E file \in Files : audioFile' = file
  /\ previewPeaks' = << >>
  /\ inflight' = <<Detection(appThreshold)>>
  /\ readyPending' = TRUE
  /\ readyThreshold' = appThreshold
  /\ optionsThreshold' = OPTIONS_THRESHOLD
  /\ UNCHANGED <<appThreshold, detVars, pairVars, sliceVars, exportVars, playVars>>

\* a call of processAudio whose ProcessingOptions has unmounted: it runs on, and
\* its setIsProcessing changes nothing any more
Unmounted(run) == [run EXCEPT !.mounted = FALSE]

\* "Upload a different file": the components unmount; setPeaks of a call that
\* still awaits changes nothing any more; a ProcessingOptions mounted later
\* starts with isProcessing false
UploadDifferent ==
  /\ audioFile # NoFile
  /\ audioFile' = NoFile
  /\ previewPeaks' = << >>
  /\ inflight' = << >>
  /\ readyPending' = FALSE
  /\ readyThreshold' = DEFAULT_THRESHOLD
  /\ optionsThreshold' = OPTIONS_THRESHOLD
  /\ ResetPlayback
  /\ isProcessing' = FALSE
  /\ runs' = [k \in 1..Len(runs) |-> Unmounted(runs[k])]
  /\ UNCHANGED <<downloads, appThreshold, detVars, pairVars, sliceVars>>

\* the slider moves: handleThresholdChange sets both thresholds, and a render
\* of AudioPreview with a new threshold runs the threshold effect
ChangeThreshold ==
  /\ audioFile # NoFile
  /\ Len(inflight) < MaxInflight
  /\ \E value \in SliderValues \ {optionsThreshold} :
       /\ optionsThreshold' = value
       /\ appThreshold' = value
       /\ inflight' = IF value # appThreshold
                      THEN Append(inflight, Detection(value))
                      ELSE inflight
  /\ UNCHANGED <<audioFile, previewPeaks, readyPending, readyThreshold,
                 detVars, pairVars, sliceVars, exportVars, playVars>>

\* the waveform is loaded: the 'ready' handler of the first render runs
WaveformReady ==
  /\ readyPending
  /\ Len(inflight) < MaxInflight
  /\ readyPending' = FALSE
  /\ inflight' = Append(inflight, Detection(readyThreshold))
  /\ UNCHANGED <<audioFile, appThreshold, previewPeaks, readyThreshold,
                 optionsThreshold, detVars, pairVars, sliceVars, exportVars, playVars>>

\* one of the awaiting calls gets its buffer, detects and sets the peaks
CompleteDetection ==
  /\ \E k \in 1..Len(inflight) :
       /\ previewPeaks' = DetectedPeaks[audioFile][inflight[k].threshold]
       /\ inflight' = RemoveAt(inflight, k)
  /\ UNCHANGED <<audioFile, appThreshold, readyPending, readyThreshold,
                 optionsThreshold, detVars, pairVars, sliceVars, exportVars, playVars>>

NextPreview ==
  \/ SelectFile
  \/ UploadDifferent
  \/ ChangeThreshold
  \/ WaveformReady
  \/ CompleteDetection

SpecPreview == InitPreview /\ [][NextPreview]_vars

\* ------------------------------------------------------------- the playback
\* the other state of the components, which the playback leaves alone
previewVars == <<audioFile, appThreshold, previewPeaks, inflight, readyPending,
                 readyThreshold, optionsThreshold>>

\* stopPlayback(): what it leaves in playbackTimeoutRef.current and of the
\* armed timers (it stops the waveform and resets isPlaying and selectedPeak)
ClearedBy_stopPlayback == clearTimers \ {playbackTimeoutRef}

stopPlayback ==
  /\ playing' = Stopped
  /\ isPlaying' = FALSE
  /\ selectedPeak' = NoSelection
  /\ clearTimers' = ClearedBy_stopPlayback
  /\ playbackTimeoutRef' = NoTimer

\* a click on "Sample index + 1": playPeak(index) of the render shown
PlayPeak ==
  /\ audioFile # NoFile
  /\ calls < MaxCalls
  /\ \E index \in 0..(Len(previewPeaks) - 1) :
       delayTimers' = Append(delayTimers,
                             [kind |-> "playPeak", index |-> index,
                              peaks |-> previewPeaks, call |-> calls + 1])
  /\ stopPlayback
  /\ calls' = calls + 1
  /\ lastPlayPeak' = calls + 1
  /\ UNCHANGED <<staleFired, previewVars, detVars, pairVars, sliceVars, exportVars>>

\* a click on "Restart"
Restart ==
  /\ audioFile # NoFile
  /\ calls < MaxCalls
  /\ delayTimers' = Append(delayTimers, [kind |-> "restart", call |-> calls + 1])
  /\ stopPlayback
  /\ calls' = calls + 1
  /\ UNCHANGED <<lastPlayPeak, staleFired, previewVars, detVars, pairVars, sliceVars, exportVars>>

\* a click on "Play" / "Pause"
TogglePlayPause ==
  /\ audioFile # NoFile
  /\ IF isPlaying
     THEN stopPlayback
     ELSE /\ playing' = WholeFile
          /\ isPlaying' = TRUE
          /\ UNCHANGED <<selectedPeak, clearTimers, playbackTimeoutRef>>
  /\ UNCHANGED <<delayTimers, calls, lastPlayPeak, staleFired,
                 previewVars, detVars, pairVars, sliceVars, exportVars>>

\* whether a timer is one an earlier call than the last playPeak set
Stale(call) == call < lastPlayPeak

\* the 50 ms of the oldest delay are over: its callback runs, with the peaks
\* of the render that set it
DelayElapsed ==
  /\ delayTimers # << >>
  /\ LET timer == Head(delayTimers)
     IN /\ delayTimers' = Tail(delayTimers)
        /\ isPlaying' = TRUE
        /\ staleFired' = (staleFired \/ Stale(timer.call))
        /\ IF timer.kind = "restart"
           THEN /\ playing' = WholeFile
                /\ UNCHANGED <<selectedPeak, clearTimers, playbackTimeoutRef>>
           ELSE /\ playing' = Segment(timer.peaks[timer.index + 1])
                /\ selectedPeak' = timer.index
                /\ clearTimers' = clearTimers \cup {timer.call}
                /\ playbackTimeoutRef' = timer.call
  /\ UNCHANGED <<calls, lastPlayPeak, previewVars, detVars, pairVars, sliceVars, exportVars>>

\* the duration of a segment is over: the timer armed when it started runs
SelectionTimeout ==
  /\ \E timer \in clearTimers :
       /\ clearTimers' = clearTimers \ {timer}
       /\ staleFired' = (staleFired \/ Stale(timer))
  /\ selectedPeak' = NoSelection
  /\ isPlaying' = FALSE
  /\ UNCHANGED <<playbackTimeoutRef, delayTimers, calls, lastPlayPeak, playing,
                 previewVars, detVars, pairVars, sliceVars, exportVars>>

\* the waveform reaches the end of the segment it plays, and pauses
SegmentEnds ==
  /\ playing.kind = "segment"
  /\ playing' = Stopped
  /\ UNCHANGED <<isPlaying, selectedPeak, playbackTimeoutRef, delayTimers, clearTimers,
                 calls, lastPlayPeak, staleFired,
                 previewVars, detVars, pairVars, sliceVars, exportVars>>

\* the waveform reaches the end of the file: the 'finish' handler runs
Finish ==
  /\ playing.kind = "file"
  /\ playing' = Stopped
  /\ isPlaying' = FALSE
  /\ selectedPeak' = NoSelection
  /\ UNCHANGED <<playbackTimeoutRef, delayTimers, clearTimers, calls, lastPlayPeak,
                 staleFired, previewVars, detVars, pairVars, sliceVars, exportVars>>

NextPlayback ==
  \/ SelectFile
  \/ UploadDifferent
  \/ ChangeThreshold
  \/ WaveformReady
  \/ CompleteDetection
  \/ PlayPeak
  \/ Restart
  \/ TogglePlayPause
  \/ DelayElapsed
  \/ SelectionTimeout
  \/ SegmentEnds
  \/ Finish

SpecPlayback == InitPreview /\ [][NextPlayback]_vars

\* -------------------------------------------------------------- the export
\* audioBufferToWav(buffer): the blob, by its type and its size in bytes, a
\* header of 44 bytes and two bytes for each sample of each channel
audioBufferToWav(numberOfChannels, length) ==
  [type |-> "audio/wav", size |-> 44 + length * numberOfChannels * 2]

\* processAudio() up to its first await: the file and the threshold of the
\* render that was clicked, the decoding under way, the archive not yet made
StartedRun(file, thr) ==
  [file |-> file, threshold |-> thr, mounted |-> TRUE, pc |-> "decode",
   peaks |-> << >>, zip |-> << >>, failed |-> "none", added |-> 0]

\* processAudio() returns: its locals are gone; what is kept of the run is how
\* it ended and how many files its folder held (history)
Returned(run, step) ==
  [file |-> NoFile, threshold |-> 0, mounted |-> run.mounted, pc |-> "done",
   peaks |-> << >>, zip |-> << >>, failed |-> step, added |-> Len(run.zip)]

\* an await of the try block throws: the catch block logs the error, nothing
\* after the await runs
Thrown(run, step) == Returned(run, step)

\* the finally block left out: isProcessing stays as it is
Finally_Skipped(run) == isProcessing

\* the finally block, setIsProcessing(false): isProcessing of the
\* ProcessingOptions that is mounted, after it
Finally(run) == IF run.mounted THEN FALSE ELSE isProcessing

\* the buffer of a run as sliceAudio reads it, and the range of a peak
SliceArgs(run, peak) ==
  [called |-> TRUE, length |-> Len(createAudioBuffer(run.file).data),
   sampleRate |-> createAudioBuffer(run.file).sampleRate, numberOfChannels |-> 1,
   start |-> peak.start.num, end |-> peak.end.num]

\* folder.file(`sample_${i + 1}.wav`, wavBlob)
ZipEntry(i, wavBlob) == [name |-> i + 1, blob |-> wavBlob]

\* the names of the files of an archive, which is what is kept of a download
Listing(zip) == [i \in 1..Len(zip) |-> zip[i].name]

\* what sliceAudio can return or throw for a peak, for the floors it computes
SliceOutcomes(run, peak) ==
  {sliceAudio(SliceArgs(run, peak), sampleStart, sampleDuration) :
     sampleStart \in FloorSamples(peak.start.num),
     sampleDuration \in FloorSamples(peak.end.num - peak.start.num)}

\* the for loop from the turn that follows the files of zip: the folders it
\* can end with, and whether a turn threw. A turn throws when createBuffer
\* does, or for want of a resource (new AudioContext(), the output buffer).
\* The awaits of the loop are of promises that are resolved already, so that
\* no event is handled between its turns
RECURSIVE Loop(_, _)
Loop(run, zip) ==
  IF Len(zip) >= Len(run.peaks)
  THEN {[zip |-> zip, failed |-> "none"]}
  ELSE {[zip |-> zip, failed |-> "slice"]} \cup
       UNION {IF slicedBuffer.error # "none"
              THEN {[zip |-> zip, failed |-> "slice"]}
              ELSE Loop(run, Append(zip,
                                    ZipEntry(Len(zip),
                                             audioBufferToWav(
                                               Len(slicedBuffer.channels),
                                               Len(slicedBuffer.channels[1])))))
              : slicedBuffer \in SliceOutcomes(run, run.peaks[Len(zip) + 1])}

\* a run with its buffer decoded and the peaks detected in it
Detected(run) == [run EXCEPT !.peaks = DetectedPeaks[run.file][run.threshold]]

\* how the loop can end, for every file and every threshold of a run
LoopOutcomes ==
  [file \in Files |->
     [thr \in SliderValues \cup {OPTIONS_THRESHOLD} |->
        Loop(Detected(StartedRun(file, thr)), << >>)]]

\* a click on "Process & Download", which is disabled while isProcessing
ProcessAudio ==
  /\ audioFile # NoFile
  /\ ~isProcessing
  /\ Len(runs) < MaxRuns
  /\ isProcessing' = TRUE
  /\ runs' = Append(runs, StartedRun(audioFile, optionsThreshold))
  /\ UNCHANGED <<downloads, detVars, pairVars, sliceVars, uiVars>>

\* createAudioBuffer resolves: the peaks are detected, the folder is made,
\* every peak is sliced, converted and added, and zip.generateAsync is awaited
DecodeResolved ==
  /\ \E k \in 1..Len(runs) :
       /\ runs[k].pc = "decode"
       /\ \E out \in LoopOutcomes[runs[k].file][runs[k].threshold] :
            /\ out.failed = "none"
            /\ runs' = [runs EXCEPT ![k] = [Detected(runs[k]) EXCEPT
                                              !.zip = out.zip, !.pc = "generate"]]
  /\ UNCHANGED <<isProcessing, downloads, detVars, pairVars, sliceVars, uiVars>>

\* createAudioBuffer resolves and a turn of the loop throws
SliceThrows ==
  /\ \E k \in 1..Len(runs) :
       /\ runs[k].pc = "decode"
       /\ \E out \in LoopOutcomes[runs[k].file][runs[k].threshold] :
            /\ out.failed # "none"
            /\ runs' = [runs EXCEPT ![k] = Thrown([Detected(runs[k]) EXCEPT
                                                     !.zip = out.zip], out.failed)]
       /\ isProcessing' = Finally(runs[k])
  /\ UNCHANGED <<downloads, detVars, pairVars, sliceVars, uiVars>>

\* createAudioBuffer rejects: the file cannot be read or decoded
DecodeRejected ==
  /\ \E k \in 1..Len(runs) :
       /\ runs[k].pc = "decode"
       /\ runs' = [runs EXCEPT ![k] = Thrown(runs[k], "decode")]
       /\ isProcessing' = Finally(runs[k])
  /\ UNCHANGED <<downloads, detVars, pairVars, sliceVars, uiVars>>

\* zip.generateAsync resolves: the archive is handed to the browser by a click
\* on a link to it, then the finally block runs
GenerateResolved ==
  /\ \E k \in 1..Len(runs) :
       /\ runs[k].pc = "generate"
       /\ downloads' = Append(downloads, [run |-> k, files |-> Listing(runs[k].zip),
                                          peaks |-> Len(runs[k].peaks)])
       /\ runs' = [runs EXCEPT ![k] = Returned(runs[k], "none")]
       /\ isProcessing' = Finally(runs[k])
  /\ UNCHANGED <<detVars, pairVars, sliceVars, uiVars>>

\* zip.generateAsync rejects
GenerateRejected ==
  /\ \E k \in 1..Len(runs) :
       /\ runs[k].pc = "generate"
       /\ runs' = [runs EXCEPT ![k] = Thrown(runs[k], "generate")]
       /\ isProcessing' = Finally(runs[k])
  /\ UNCHANGED <<downloads, detVars, pairVars, sliceVars, uiVars>>

\* an await of a run settles
Settles ==
  \/ DecodeResolved
  \/ SliceThrows
  \/ DecodeRejected
  \/ GenerateResolved
  \/ GenerateRejected

NextExport ==
  \/ SelectFile
  \/ UploadDifferent
  \/ ProcessAudio
  \/ DecodeResolved
  \/ SliceThrows
  \/ DecodeRejected
  \/ GenerateResolved
  \/ GenerateRejected

\* the exports of a file at the threshold ProcessingOptions mounts with; every
\* promise a run awaits settles, the user need not click
SpecExport == InitPreview /\ [][NextExport]_vars /\ WF_vars(Settles)

\* ------------------------------------------------------------ the scenarios
ScenarioNames == {"A", "B"}
ImpulseNames == {"C", "C11"}

StartScenario(names) ==
  /\ script \in names
  /\ sampleRate = Scenario(script).rate
  /\ dataLength = Scenario(script).length
  /\ threshold = Scenario(script).threshold
  /\ levels = {0}
  /\ budget = -1
  /\ ahead = [k \in 1..Min(rmsWindowSize(sampleRate), dataLength) |->
                ScenarioSample(Scenario(script), k - 1)]
  /\ windowRms = calculateRMS(ahead, dataLength, 0, rmsWindowSize(sampleRate))
  /\ det = InitDet(sampleRate)
  /\ pc = "loop"
  /\ obs = InitObs
  /\ NoPair
  /\ NoSlice
  /\ NoComponents

InitScenario == StartScenario(ScenarioNames)

NextScenario == StartPeak \/ ContinuePeak \/ EndPeak \/ SkipIndex \/ ReturnPeaks

SpecScenario == InitScenario /\ [][NextScenario]_vars

InitImpulses == StartScenario(ImpulseNames)

NextImpulses == StartPeak \/ ContinuePeak \/ EndPeak \/ SkipIndex \/ ReturnPeaks

SpecImpulses == InitImpulses /\ [][NextImpulses]_vars

\* ------------------------------------------------------------- properties
\* a <= b for two times in seconds
SecLeq(a, b) == a.num * b.den <= b.num * a.den

\* the sample index of a time of the output (a time of a run at sampleRate)
Idx(t) == t.num

Duration(p) == Idx(p.end) - Idx(p.start)

LastPeak == det.peaks[Len(det.peaks)]

\* C1: the segments detectPeaks returns are in non-decreasing start order and
\* do not overlap: each one ends no later than the next one starts, also when
\* the minimum-duration clamp moved an end forward.
C1_Ordered ==
  \A k \in 1..(Len(det.peaks) - 1) :
    /\ SecLeq(det.peaks[k].end, det.peaks[k + 1].start)
    /\ SecLeq(det.peaks[k].start, det.peaks[k + 1].start)

\* two segments, the second with its end raised to the minimum duration,
\* past the index where the energy fell and past the end of the buffer
C1_Witness ==
  /\ pc = "done"
  /\ Len(det.peaks) >= 2
  /\ obs.minClamped
  /\ ~obs.flushed
  /\ Idx(LastPeak.end) > obs.exitIndex + 1

\* C2: every segment lasts at least MIN_SEGMENT_DURATION and at most
\* MAX_SEGMENT_DURATION, in samples, except that the segment flushed at the
\* end of the buffer need only meet the minimum.
C2_Bounds ==
  \A k \in 1..Len(det.peaks) :
    /\ Duration(det.peaks[k]) >= minSegmentSamples(sampleRate)
    /\ \/ Duration(det.peaks[k]) <= maxSegmentSamples(sampleRate)
       \/ k = Len(det.peaks) /\ obs.flushed

\* a segment cut to the maximum on a falling edge, then a flushed one
C2_Witness ==
  /\ pc = "done"
  /\ obs.flushed
  /\ Len(det.peaks) >= 2
  /\ Duration(det.peaks[1]) = maxSegmentSamples(sampleRate)
  /\ Duration(LastPeak) = minSegmentSamples(sampleRate)

\* C3: every segment lies inside the analysed buffer: start >= 0 and
\* end <= N / sampleRate.
C3_InsideBuffer ==
  \A k \in 1..Len(det.peaks) :
    /\ Idx(det.peaks[k].start) >= 0
    /\ SecLeq(det.peaks[k].end, ToSeconds(dataLength, sampleRate))

\* C4: a peak is entered only at an index at least MIN_PEAK_DISTANCE after
\* lastPeakIndex, its start is at least lastPeakIndex + MIN_PEAK_DISTANCE,
\* lastPeakIndex is the end of the preceding segment, and so every segment
\* starts at least MIN_PEAK_DISTANCE after the end of the one before it (the
\* first one at an index >= 0).
C4_EntryStep ==
  (~det.isInPeak /\ det'.isInPeak) =>
    /\ det.i - det.lastPeakIndex >= minPeakDistanceSamples(sampleRate)
    /\ det'.peakStartIndex >= det.lastPeakIndex + minPeakDistanceSamples(sampleRate)

C4_State ==
  /\ \A k \in 1..(Len(det.peaks) - 1) :
       Idx(det.peaks[k + 1].start) >=
         Idx(det.peaks[k].end) + minPeakDistanceSamples(sampleRate)
  /\ Len(det.peaks) >= 1 => Idx(det.peaks[1].start) >= 0
  /\ (pc = "loop" /\ Len(det.peaks) >= 1) => det.lastPeakIndex = Idx(LastPeak.end)
  /\ det.isInPeak => det.peakStartIndex >= det.lastPeakIndex + minPeakDistanceSamples(sampleRate)

C4_ExclusionZone == [][C4_EntryStep]_vars /\ []C4_State

\* a second segment that starts exactly where the exclusion zone ends
C4_Witness ==
  /\ Len(det.peaks) >= 2
  /\ Idx(det.peaks[2].start) = Idx(det.peaks[1].end) + minPeakDistanceSamples(sampleRate)

\* C5 as stated: with a threshold <= 0 and no silent window, a run long
\* enough to hold several maximal segments is returned as several segments.
C5_Chained ==
  ( /\ pc = "done"
    /\ threshold <= 0
    /\ obs.allAbove
    /\ dataLength >= 2 * maxSegmentSamples(sampleRate) )
  => Len(det.peaks) >= 2

\* C5 amended: when every window exceeds the threshold the run is closed only
\* by the flush after the loop and yields at most one segment, which starts
\* at index 0 and ends at min(N, MAX_SEGMENT_DURATION in samples), and which is
\* returned exactly when it meets the minimum duration.
C5_SingleSegment ==
  ( /\ pc = "done"
    /\ obs.allAbove
    /\ dataLength > 0 )
  => det.peaks =
       IF Min(dataLength, maxSegmentSamples(sampleRate)) >= minSegmentSamples(sampleRate)
       THEN << [start |-> ToSeconds(0, sampleRate),
                end |-> ToSeconds(Min(dataLength, maxSegmentSamples(sampleRate)), sampleRate),
                amplitude |-> det.maxAmplitude] >>
       ELSE << >>

\* a run of more than two maximal segments, returned as one segment
C5_Witness ==
  /\ pc = "done"
  /\ threshold <= 0
  /\ obs.allAbove
  /\ dataLength >= 2 * maxSegmentSamples(sampleRate)
  /\ Len(det.peaks) = 1

\* C6: a window whose RMS equals the threshold does not exceed it: at such
\* an index an idle detector stays idle and returns nothing new, a detector
\* in a peak leaves it; and a buffer no window of which rises above the
\* threshold yields no segment.
C6_TieStep ==
  ( /\ pc = "loop"
    /\ det.i < dataLength
    /\ det'.i = det.i + 1
    /\ RmsEquals(windowRms, threshold) )
  => /\ ~det'.isInPeak
     /\ ~det.isInPeak => det'.peaks = det.peaks
     /\ det.isInPeak => Len(det'.peaks) = Len(det.peaks) + 1

C6_TieBreak ==
  /\ [][C6_TieStep]_vars
  /\ []((pc = "done" /\ obs.noneAbove) => det.peaks = << >>)

\* a segment closed by a window whose RMS equals a positive threshold
C6_Witness ==
  /\ obs.exitTie
  /\ threshold > 0
  /\ ~det.isInPeak
  /\ Len(det.peaks) >= 1

\* C7: once every call of detectAndUpdatePeaks has completed, the peaks shown
\* are those of the current threshold (last request wins).
C7_LastRequestWins ==
  (audioFile # NoFile /\ inflight = << >>) =>
    previewPeaks = detectPeaks(createAudioBuffer(audioFile), appThreshold)

\* a call has entered a peak, now or before
Entered(d) == d.isInPeak \/ d.peaks # << >>

\* the start index of the first peak a call entered
FirstStart(d) == IF d.peaks # << >> THEN Idx(d.peaks[1].start) ELSE d.peakStartIndex

C9_RangeError ==
  (sliced # NoCall /\ sliceArgs.end > sliceArgs.length) => sliced.error = "RangeError"

\* the segment scenario A yields: samples 3370 to 7291 (0.0702 s to 0.1519 s),
\* amplitude sqrt(2500 / 240) units (0.323)
ScenarioASegment ==
  [start |-> ToSeconds(3370, 48000),
   end |-> ToSeconds(7291, 48000),
   amplitude |-> [sum |-> 2500, n |-> 240]]

\* C10 as stated: scenario A returns no segment, so the call never adds one to
\* the list it returns.
C10_NoSegment ==
  script = "A" => det.peaks = << >>

\* C10 amended: scenario A returns exactly one segment, from sample 3370 to
\* sample 7291 (0.0702 s to 0.1519 s) with amplitude 0.323: a window that holds
\* 10 or more samples of the burst has an RMS above 0.1.
C10_OneSegment ==
  script = "A" =>
    /\ det.peaks \in {<< >>, <<ScenarioASegment>>}
    /\ pc = "done" => det.peaks = <<ScenarioASegment>>

C10_Witness ==
  /\ script = "A"
  /\ pc = "done"
  /\ Len(det.peaks) = 1
  /\ obs.exitIndex = 4891


ScenarioBSegment ==
  [start |-> ToSeconds(3370, 48000),
   end |-> ToSeconds(7431, 48000),
   amplitude |-> [sum |-> 6000, n |-> 240]]

C12_Merged ==
  (script = "C" /\ pc = "done") =>
    /\ Len(det.peaks) = 1
    /\ Idx(det.peaks[1].start) <= 4800
    /\ Idx(det.peaks[1].end) > 5000

\* the segment two impulses of 1.1 yield: samples 3561 to 7201
ScenarioC11Segment ==
  [start |-> ToSeconds(3561, 48000),
   end |-> ToSeconds(7201, 48000),
   amplitude |-> [sum |-> 242, n |-> 240]]

\* C12 amended: with impulses of full scale (1.0) scenario C never enters a peak
\* and returns no segment; impulses of 1.1 return one segment that covers both.
C12_FullScaleSilent ==
  /\ script = "C" => (det.peaks = << >> /\ ~det.isInPeak)
  /\ script = "C11" =>
       /\ det.peaks \in {<< >>, <<ScenarioC11Segment>>}
       /\ pc = "done" => det.peaks = <<ScenarioC11Segment>>

C12_Witness ==
  /\ script = "C"
  /\ pc = "done"
  /\ det.i = 48000
  /\ obs.noneAbove
  /\ det.peaks = << >>


\* C13: every call of detectPeaks returns, whatever the buffer, the threshold
\* and the sample rate, and it returns the empty list for an empty buffer.
C13_Total ==
  /\ <>(pc = "done")
  /\ [](pc = "loop" => det.i <= dataLength)
  /\ []((pc = "done" /\ dataLength = 0) => det.peaks = << >>)

\* the call returned for an empty buffer
C13_Witness ==
  /\ pc = "done"
  /\ dataLength = 0
  /\ det.peaks = << >>


\* C14: a buffer of zeros and a threshold above 0 never take the detector into
\* a peak, and the call returns the empty list.
C14_Silence ==
  /\ ~det.isInPeak
  /\ det.peaks = << >>
  /\ ~StartCond(det, windowRms, threshold, sampleRate)

\* the call returned for a buffer of zeros long enough to hold a segment
C14_Witness ==
  /\ pc = "done"
  /\ levels = {0}
  /\ threshold > 0
  /\ dataLength >= minSegmentSamples(sampleRate)
  /\ rmsWindowSize(sampleRate) > 0
  /\ det.i = dataLength
  /\ det.peaks = << >>


\* C15: no timer that a call earlier than the last playPeak set fires and
\* acts, and at most one timer is armed to clear the selection.
C15_TimersCleared ==
  /\ ~staleFired
  /\ Cardinality(clearTimers) <= 1


\* C16: a call that leaves the loop inside a peak closes it at
\* min(N, peakStart + maximum), with no post-peak buffer and no minimum
\* extension, and appends it if and only if it is at least the minimum long;
\* a call that leaves the loop outside a peak appends nothing.
C16_FlushStep ==
  (pc = "loop" /\ pc' = "done") =>
    LET end == Min(dataLength, det.peakStartIndex + maxSegmentSamples(sampleRate))
    IN IF det.isInPeak /\ end - det.peakStartIndex >= minSegmentSamples(sampleRate)
       THEN det'.peaks = Append(det.peaks,
                                [start |-> ToSeconds(det.peakStartIndex, sampleRate),
                                 end |-> ToSeconds(end, sampleRate),
                                 amplitude |-> det.maxAmplitude])
       ELSE det'.peaks = det.peaks

C16_Flush == [][C16_FlushStep]_vars

\* the flush closed a segment at the end of the buffer, after another one
C16_Witness ==
  /\ pc = "done"
  /\ obs.flushed
  /\ Len(det.peaks) >= 2
  /\ Idx(LastPeak.end) = dataLength
  /\ Duration(LastPeak) < maxSegmentSamples(sampleRate)

\* C17: every step of the loop that leaves a peak appends exactly one segment
\* and sets lastPeakIndex to its end.
C17_EdgeStep ==
  (det.isInPeak /\ ~det'.isInPeak) =>
    /\ Len(det'.peaks) = Len(det.peaks) + 1
    /\ SubSeq(det'.peaks, 1, Len(det.peaks)) = det.peaks
    /\ det'.lastPeakIndex = Idx(det'.peaks[Len(det'.peaks)].end)
    /\ Duration(det'.peaks[Len(det'.peaks)]) >= minSegmentSamples(sampleRate)

C17_EdgeEmits == [][C17_EdgeStep]_vars

\* a falling edge whose segment the minimum clamp extended, at a rate where
\* the minimum is no whole number of samples
C17_Witness ==
  /\ sampleRate = 250
  /\ ~det.isInPeak
  /\ obs.minClamped
  /\ obs.exitIndex >= 0
  /\ Len(det.peaks) >= 1
  /\ det.lastPeakIndex = Idx(LastPeak.end)


\* the last segment of the list is the one the last peak was closed as
LastPeakClosed ==
  /\ obs.tracked
  /\ det.peaks # << >>
  /\ \/ pc = "loop" /\ ~det.isInPeak
     \/ pc = "done" /\ (~det.isInPeak \/ obs.flushed)

\* C18 as stated: the amplitude of a segment is the highest RMS of the windows
\* visited inside its peak, it exceeds the threshold, and the index of that
\* window lies in the segment's range [peakStart, peakEnd).
C18_AmplitudeInside ==
  LastPeakClosed =>
    /\ LastPeak.amplitude = obs.runMax
    /\ Exceeds(LastPeak.amplitude, threshold)
    /\ Idx(LastPeak.start) <= obs.runMaxIndex
    /\ obs.runMaxIndex < Idx(LastPeak.end)

\* C18 amended: the amplitude is the highest RMS of the windows visited inside
\* the peak and exceeds the threshold; the index of that window is not before
\* peakStart, and it is before peakEnd unless the maximum duration cut the
\* segment short of it.
C18_AmplitudeOfRun ==
  LastPeakClosed =>
    /\ LastPeak.amplitude = obs.runMax
    /\ Exceeds(LastPeak.amplitude, threshold)
    /\ Idx(LastPeak.start) <= obs.runMaxIndex
    /\ \/ obs.runMaxIndex < Idx(LastPeak.end)
       \/ Duration(LastPeak) = maxSegmentSamples(sampleRate)

\* a segment cut to the maximum duration whose amplitude is the RMS of a
\* window that starts after its end
C18_Witness ==
  /\ LastPeakClosed
  /\ Duration(LastPeak) = maxSegmentSamples(sampleRate)
  /\ obs.runMaxIndex >= Idx(LastPeak.end)
  /\ LastPeak.amplitude = obs.runMax
  /\ Exceeds(LastPeak.amplitude, threshold)


\* C19: while a file is loaded, the threshold of ProcessingOptions (shown on
\* the slider, used by processAudio) is the threshold App gives AudioPreview.
C19_ThresholdsAgree ==
  audioFile # NoFile => optionsThreshold = appThreshold

\* C20: selectedPeak is null or the index of an entry of the peaks shown, and
\* then that entry is the segment the waveform was started on.
C20_SelectionValid ==
  selectedPeak # NoSelection =>
    /\ selectedPeak >= 0
    /\ selectedPeak < Len(previewPeaks)
    /\ playing.kind = "segment" => playing.peak = previewPeaks[selectedPeak + 1]

\* whether the k-th call of processAudio has not returned yet
Underway(k) == runs[k].pc # "done"

\* whether the k-th call of processAudio delivered an archive
Delivered(k) == \E d \in 1..Len(downloads) : downloads[d].run = k

\* a failed run has returned and delivered nothing, an archive delivered holds
\* a file for every peak, and isProcessing is true only while a run of the
\* ProcessingOptions shown has not returned
C21_Aborted ==
  /\ \A k \in 1..Len(runs) :
       runs[k].failed # "none" => ~Underway(k) /\ ~Delivered(k)
  /\ \A d \in 1..Len(downloads) :
       /\ runs[downloads[d].run].failed = "none"
       /\ Len(downloads[d].files) = downloads[d].peaks
  /\ isProcessing => \E k \in 1..Len(runs) : runs[k].mounted /\ Underway(k)

\* C21: a failure of the decoding, of a slice or of the packaging aborts the
\* export, with no download and no partial archive, and leaves isProcessing
\* false so that a later export can run; every run of processAudio returns, and
\* isProcessing is false again after it.
C21_ExportSettles ==
  /\ []C21_Aborted
  /\ []<>~isProcessing
  /\ \A k \in 1..MaxRuns : []<>(k <= Len(runs) => ~Underway(k))

\* a run has failed in the loop with a file already in its folder, nothing of
\* it was delivered, and a later export of the same ProcessingOptions ran
C21_Witness ==
  /\ Len(runs) >= 2
  /\ runs[1].failed = "slice"
  /\ runs[1].added > 0
  /\ ~Delivered(1)
  /\ runs[1].mounted /\ runs[2].mounted
  /\ Delivered(2)
  /\ ~isProcessing

====
